---- MODULE Spec2Model ----
\* Model of TxnProcessor (src/a2/txn/txn_processor.cc): the coordinator that
\* hands transactions between client threads, one scheduler thread and a
\* worker pool, under the SERIAL and the two LOCKING concurrency modes (the
\* OCC, P_OCC and MVCC schedulers of the source run the serial scheduler).
EXTENDS Integers, Sequences, FiniteSets, TLC

\* ------------------------------------------------------------------ bounds
NumTxns == 2        \* transactions a run submits
NumKeys == 2        \* keys of the store
MaxId == 4          \* the scheduler restarts a txn only while next_unique_id_ <= MaxId
NumClients == 2     \* threads polling GetTxnResult

Txns == 1..NumTxns
Keys == 1..NumKeys
Clients == 1..NumClients

\* CCMode of txn_processor.h, as RunScheduler switches on it.
Modes == {"SERIAL", "LOCKING", "LOCKING_EXCLUSIVE_ONLY", "OCC", "P_OCC", "MVCC"}
LockingModes == {"LOCKING", "LOCKING_EXCLUSIVE_ONLY"}

\* The transactions a client may submit: declared key sets and the kind of
\* logic callback.  Keys 1 and 2 only, so that transactions contend.
\*   put   : write 1 to every key of the writeset, commit
\*   incr  : write reads[k]+1 to every key k of the writeset, commit
\*   sum   : write 1 + (sum of the readset values read) to the writeset, commit
\*   abort : buffer a write of 9 to every key of the writeset, then abort
\*   none  : return without setting a completion status
TxnTypes ==
    << [readset |-> {},     writeset |-> {1},    logic |-> "put"],
       [readset |-> {},     writeset |-> {1},    logic |-> "incr"],
       [readset |-> {1},    writeset |-> {},     logic |-> "incr"],
       [readset |-> {1},    writeset |-> {2},    logic |-> "sum"],
       [readset |-> {2},    writeset |-> {1},    logic |-> "sum"],
       [readset |-> {1},    writeset |-> {1},    logic |-> "incr"],
       [readset |-> {},     writeset |-> {1, 2}, logic |-> "put"],
       [readset |-> {2},    writeset |-> {1},    logic |-> "abort"],
       [readset |-> {},     writeset |-> {2},    logic |-> "none"],
       [readset |-> {1, 2}, writeset |-> {},     logic |-> "incr"] >>

VARIABLES
    mode_,            \* CCMode chosen at construction
    readset_,         \* Txn::readset_, per transaction
    writeset_,        \* Txn::writeset_
    logic,            \* which callback Txn::Run() is
    unique_id_,       \* Txn::unique_id_ (0: not yet submitted)
    status_,          \* Txn::status_
    reads_,           \* Txn::reads_  : partial map Key -> Value
    writes_,          \* Txn::writes_ : partial map Key -> Value
    next_unique_id_,
    txn_requests_,    \* AtomicQueue<Txn*>
    ready_txns_,      \* deque<Txn*>, shared with the lock manager
    completed_txns_,  \* AtomicQueue<Txn*>
    txn_results_,     \* AtomicQueue<Txn*>
    storage_,         \* partial map Key -> [val, writer]
    lock_table,       \* lm_ : Key -> queue of [txn, mode, granted]
    sched_pc,         \* where the scheduler thread is in its loop body
    sched_txn,        \* the completed txn the scheduler is committing (0: none)
    sched_keys,       \* keys of writes_ still to be written by ApplyWrites
    tasks,            \* txns handed to the thread pool and not yet finished
    task_keys,        \* per task: keys ExecuteTxn has still to read
    dead,             \* "no", or why the process died (DIE)
    got,              \* per client: the txns GetTxnResult returned to it
    \* history variables, read by the properties only
    clog,             \* commit log: <<[txn, writes]>> in commit order
    restarts,         \* per txn: times the Locking scheduler re-enqueued it
    pushed,           \* per txn: times pushed on txn_results_
    returned,         \* per txn: times returned by GetTxnResult
    execs,            \* per txn: times its logic ran
    seen,             \* per txn: Len(clog) when it was last popped for admission
    ran,              \* per txn: Len(clog) when its logic ran
    storage0          \* the store as InitStorage left it

vars == << mode_, readset_, writeset_, logic, unique_id_, status_, reads_, writes_,
           next_unique_id_, txn_requests_, ready_txns_, completed_txns_,
           txn_results_, storage_, lock_table, sched_pc, sched_txn, sched_keys,
           tasks, task_keys, dead, got, clog, restarts, pushed, returned, execs,
           seen, ran, storage0 >>

\* ----------------------------------------------------------------- helpers
EmptyMap == [k \in {} |-> 0]

\* Iteration order of std::set<Key>: ascending.
RECURSIVE SetToSeq(_)
SetToSeq(S) ==
    IF S = {} THEN <<>>
    ELSE LET m == CHOOSE x \in S : \A y \in S : x <= y
         IN <<m>> \o SetToSeq(S \ {m})

SeqToSet(s) == {s[i] : i \in 1..Len(s)}

RemoveAt(q, i) == SubSeq(q, 1, i - 1) \o SubSeq(q, i + 1, Len(q))

\* F applied to the value of v, with v evaluated once.
Bind(v, F(_)) == CHOOSE y \in {F(x) : x \in {v}} : TRUE

RECURSIVE SumOver(_, _)
SumOver(f, S) ==
    IF S = {} THEN 0
    ELSE LET k == CHOOSE x \in S : TRUE IN f[k] + SumOver(f, S \ {k})

\* ------------------------------------------------- Storage (single-version)
\* Storage::Read: the value of the record, when there is one.
StorageRead(st, rd, k) ==
    IF k \in DOMAIN st THEN (k :> st[k].val) @@ rd ELSE rd

\* Storage::Write: overwrite the record, stamped with the writer's id.
StorageWrite(st, k, v, id) == (k :> [val |-> v, writer |-> id]) @@ st

\* --------------------------------------------------- Txn::Run, the callback
ValueOf(rd, k) == IF k \in DOMAIN rd THEN rd[k] ELSE 0

\* What the logic callback of txn t leaves in writes_ and status_, given the
\* reads ExecuteTxn cached.  Writes go to keys of the writeset only.
Run(t, rd) ==
    LET ws == writeset_[t]
        rs == readset_[t] \cap DOMAIN rd
    IN CASE logic[t] = "put" ->
              [writes |-> [k \in ws |-> 1], status |-> "COMPLETED_C"]
         [] logic[t] = "incr" ->
              [writes |-> [k \in ws |-> ValueOf(rd, k) + 1], status |-> "COMPLETED_C"]
         [] logic[t] = "sum" ->
              [writes |-> [k \in ws |-> SumOver(rd, rs) + 1], status |-> "COMPLETED_C"]
         [] logic[t] = "abort" ->
              [writes |-> [k \in ws |-> 9], status |-> "COMPLETED_A"]
         [] OTHER ->
              [writes |-> EmptyMap, status |-> status_[t]]

\* ------------------------------------------------------------ LockManager
\* LockManagerA (LOCKING_EXCLUSIVE_ONLY) and LockManagerB (LOCKING): per key a
\* queue of requests in arrival order; `granted` marks the owners.

\* Mutant of WriteLock: every request is granted at once.
WriteLockAlwaysGranted(lt, t, k) ==
    [lt |-> [lt EXCEPT ![k] = Append(@, [txn |-> t, mode |-> "WRITE", granted |-> TRUE])],
     ok |-> TRUE]

\* WriteLock: queue the request; acquired at once iff nobody is ahead of it.
WriteLock(lt, t, k) ==
    LET ok == lt[k] = <<>>
    IN [lt |-> [lt EXCEPT ![k] = Append(@, [txn |-> t, mode |-> "WRITE", granted |-> ok])],
        ok |-> ok]

\* ReadLock: LockManagerA treats it as a WriteLock; LockManagerB grants it at
\* once iff no WRITE request is ahead of it.
ReadLock(lt, t, k) ==
    IF mode_ = "LOCKING_EXCLUSIVE_ONLY" THEN WriteLock(lt, t, k)
    ELSE LET ok == \A i \in 1..Len(lt[k]) : lt[k][i].mode = "READ"
         IN [lt |-> [lt EXCEPT ![k] = Append(@, [txn |-> t, mode |-> "READ", granted |-> ok])],
             ok |-> ok]

\* Positions of queue q that own the lock once the head has it: a WRITE head
\* alone, or the leading run of READ requests.
Grantable(q) ==
    IF q = <<>> THEN {}
    ELSE IF q[1].mode = "WRITE" THEN {1}
    ELSE {i \in 1..Len(q) : \A j \in 1..i : q[j].mode = "READ"}

\* Release: drop t's earliest request on k (Release), then grant the lock to
\* the requests now at the head of the remaining queue r and hand the
\* transactions that waited for it to ready_txns_ (Granted).
\* st = [lt, ready, fatal]; releasing a key t has no request on is fatal.
Granted(st, t, k, r) ==
    LET g == Grantable(r)
        woken == SelectSeq([j \in 1..Len(r) |->
                              IF j \in g /\ ~r[j].granted /\ r[j].txn # t
                              THEN r[j].txn ELSE 0],
                           LAMBDA x : x # 0)
    IN [lt    |-> [st.lt EXCEPT ![k] =
                      [j \in 1..Len(r) |-> [r[j] EXCEPT !.granted = @ \/ j \in g]]],
        ready |-> st.ready \o woken,
        fatal |-> st.fatal]

Release(st, t, k) ==
    LET q == st.lt[k]
        hits == {i \in 1..Len(q) : q[i].txn = t}
    IN IF hits = {} THEN [st EXCEPT !.fatal = TRUE]
       ELSE Bind(RemoveAt(q, CHOOSE x \in hits : \A y \in hits : x <= y),
                 LAMBDA r : Granted(st, t, k, r))

\* ------------------------------------------------------------------- Init
\* TxnProcessor::TxnProcessor: the mode is fixed, next_unique_id_ is 1, the
\* queues are empty, InitStorage has run, the scheduler thread is at the top of
\* its loop.  The transactions the clients will submit are chosen here.
Init ==
    /\ mode_ \in Modes
    /\ \E ty \in [Txns -> 1..Len(TxnTypes)] :
          /\ \A t \in Txns : t + 1 \in Txns => ty[t] <= ty[t + 1]
          /\ readset_  = [t \in Txns |-> TxnTypes[ty[t]].readset]
          /\ writeset_ = [t \in Txns |-> TxnTypes[ty[t]].writeset]
          /\ logic     = [t \in Txns |-> TxnTypes[ty[t]].logic]
    /\ unique_id_ = [t \in Txns |-> 0]
    /\ status_ = [t \in Txns |-> "INCOMPLETE"]
    /\ reads_ = [t \in Txns |-> EmptyMap]
    /\ writes_ = [t \in Txns |-> EmptyMap]
    /\ next_unique_id_ = 1
    /\ txn_requests_ = <<>>
    /\ ready_txns_ = <<>>
    /\ completed_txns_ = <<>>
    /\ txn_results_ = <<>>
    /\ storage_ \in {EmptyMap, [k \in Keys |-> [val |-> 0, writer |-> 0]]}
    /\ lock_table = [k \in Keys |-> <<>>]
    /\ sched_pc = "request"
    /\ sched_txn = 0
    /\ sched_keys = <<>>
    /\ tasks = {}
    /\ task_keys = [t \in Txns |-> <<>>]
    /\ dead = "no"
    /\ got = [c \in Clients |-> {}]
    /\ clog = <<>>
    /\ restarts = [t \in Txns |-> 0]
    /\ pushed = [t \in Txns |-> 0]
    /\ returned = [t \in Txns |-> 0]
    /\ execs = [t \in Txns |-> 0]
    /\ seen = [t \in Txns |-> 0]
    /\ ran = [t \in Txns |-> 0]
    /\ storage0 = storage_

txn_vars == << readset_, writeset_, logic >>
hist_vars == << clog, restarts, pushed, returned, execs, seen, ran, storage0 >>

\* ------------------------------------------------------------ client side
\* Mutant of NewTxnRequest: next_unique_id_ is not incremented.
NewTxnRequestNoIncrement(t) ==
    /\ dead = "no"
    /\ unique_id_[t] = 0
    /\ unique_id_' = [unique_id_ EXCEPT ![t] = next_unique_id_]
    /\ txn_requests_' = Append(txn_requests_, t)
    /\ UNCHANGED << mode_, txn_vars, status_, reads_, writes_, next_unique_id_,
                    ready_txns_, completed_txns_, txn_results_, storage_, lock_table,
                    sched_pc, sched_txn, sched_keys, tasks, task_keys, dead, got,
                    hist_vars >>

\* NewTxnRequest: under mutex_, give the txn the next id and queue it.
NewTxnRequest(t) ==
    /\ dead = "no"
    /\ unique_id_[t] = 0
    /\ unique_id_' = [unique_id_ EXCEPT ![t] = next_unique_id_]
    /\ next_unique_id_' = next_unique_id_ + 1
    /\ txn_requests_' = Append(txn_requests_, t)
    /\ UNCHANGED << mode_, txn_vars, status_, reads_, writes_, ready_txns_,
                    completed_txns_, txn_results_, storage_, lock_table, sched_pc,
                    sched_txn, sched_keys, tasks, task_keys, dead, got, hist_vars >>

\* GetTxnResult: retry until txn_results_.Pop succeeds, return the txn popped.
GetTxnResult(c) ==
    /\ dead = "no"
    /\ txn_results_ # <<>>
    /\ txn_results_' = Tail(txn_results_)
    /\ got' = [got EXCEPT ![c] = @ \cup {Head(txn_results_)}]
    /\ returned' = [returned EXCEPT ![Head(txn_results_)] = @ + 1]
    /\ UNCHANGED << mode_, txn_vars, unique_id_, status_, reads_, writes_,
                    next_unique_id_, txn_requests_, ready_txns_, completed_txns_,
                    storage_, lock_table, sched_pc, sched_txn, sched_keys, tasks,
                    task_keys, dead, clog, restarts, pushed, execs, seen, ran, storage0 >>

\* ------------------------------------------------- ExecuteTxn, ApplyWrites
\* Mutant of KeysToRead: the writeset is not read.
KeysToReadReadsetOnly(t) == SetToSeq(readset_[t])

\* The keys ExecuteTxn reads, in order: the readset, then the writeset.
KeysToRead(t) == SetToSeq(readset_[t]) \o SetToSeq(writeset_[t])

\* The read loops of ExecuteTxn over keys[i..]: cache each record that exists.
RECURSIVE ReadKeys(_, _, _, _)
ReadKeys(st, rd, keys, i) ==
    IF i > Len(keys) THEN rd
    ELSE ReadKeys(st, StorageRead(st, rd, keys[i]), keys, i + 1)

\* ApplyWrites over keys[i..] of writes_ (a std::map: ascending key order).
RECURSIVE ApplyWrites(_, _, _, _, _)
ApplyWrites(st, wr, id, keys, i) ==
    IF i > Len(keys) THEN st
    ELSE ApplyWrites(StorageWrite(st, keys[i], wr[keys[i]], id), wr, id, keys, i + 1)

\* Mutant of Decide: a logical abort is committed.
DecideAlwaysCommit(s) ==
    IF s \in {"COMPLETED_C", "COMPLETED_A"} THEN "COMMITTED" ELSE "DIE"

\* Mutant of Decide: a status that is not COMPLETED_A counts as a commit.
DecideNeverDie(s) == IF s = "COMPLETED_A" THEN "ABORTED" ELSE "COMMITTED"

\* The commit/abort decision of the scheduler on a txn's completion status.
Decide(s) ==
    IF s = "COMPLETED_C" THEN "COMMITTED"
    ELSE IF s = "COMPLETED_A" THEN "ABORTED"
    ELSE "DIE"

\* Mutant of MustApply: the writes of an aborting txn are applied too.
MustApplyAborted(s) == s \in {"COMPLETED_C", "COMPLETED_A"}

\* Whether the scheduler writes a completed txn's buffered writes to storage.
MustApply(s) == s = "COMPLETED_C"

\* -------------------------------------------------------- serial scheduler
\* RunSerialScheduler's loop body, when Pop succeeds (an iteration whose Pop
\* fails changes nothing).  RunScheduler runs this loop for SERIAL and, the
\* other schedulers being placeholders that call it, for OCC, P_OCC and MVCC.
\* First half: pop the request and ExecuteTxn it on the scheduler thread
\* (read the readset and the writeset, run the logic, push on completed_txns_).
SerialExecute ==
    /\ dead = "no"
    /\ mode_ \notin LockingModes
    /\ sched_pc = "request"
    /\ txn_requests_ # <<>>
    /\ LET t  == Head(txn_requests_)
           rd == ReadKeys(storage_, reads_[t], KeysToRead(t), 1)
           r  == Run(t, rd)
       IN /\ txn_requests_' = Tail(txn_requests_)
          /\ reads_' = [reads_ EXCEPT ![t] = rd]
          /\ writes_' = [writes_ EXCEPT ![t] = r.writes]
          /\ status_' = [status_ EXCEPT ![t] = r.status]
          /\ completed_txns_' = Append(completed_txns_, t)
          /\ execs' = [execs EXCEPT ![t] = @ + 1]
          /\ seen' = [seen EXCEPT ![t] = Len(clog)]
          /\ ran' = [ran EXCEPT ![t] = Len(clog)]
          /\ sched_txn' = t
    /\ sched_pc' = "decide"
    /\ UNCHANGED << mode_, txn_vars, unique_id_, next_unique_id_, ready_txns_,
                    txn_results_, storage_, lock_table, sched_keys, tasks, task_keys,
                    dead, got, clog, restarts, pushed, returned, storage0 >>

\* Second half: commit or abort by the txn's status (ApplyWrites for a commit),
\* or DIE; then push the txn on txn_results_.
SerialDecide ==
    /\ dead = "no"
    /\ mode_ \notin LockingModes
    /\ sched_pc = "decide"
    /\ LET t == sched_txn
           d == Decide(status_[t])
       IN /\ storage_' = IF MustApply(status_[t])
                         THEN ApplyWrites(storage_, writes_[t], unique_id_[t],
                                          SetToSeq(DOMAIN writes_[t]), 1)
                         ELSE storage_
          /\ IF d = "DIE"
             THEN /\ dead' = "invalid_status"
                  /\ UNCHANGED << status_, txn_results_, pushed, clog, sched_pc,
                                  sched_txn >>
             ELSE /\ status_' = [status_ EXCEPT ![t] = d]
                  /\ txn_results_' = Append(txn_results_, t)
                  /\ pushed' = [pushed EXCEPT ![t] = @ + 1]
                  /\ clog' = IF d = "COMMITTED"
                             THEN Append(clog, [txn |-> t, writes |-> writes_[t]])
                             ELSE clog
                  /\ sched_pc' = "request"
                  /\ sched_txn' = 0
                  /\ UNCHANGED dead
    /\ UNCHANGED << mode_, txn_vars, unique_id_, reads_, writes_, next_unique_id_,
                    txn_requests_, ready_txns_, completed_txns_, lock_table,
                    sched_keys, tasks, task_keys, got, restarts, returned, execs,
                    seen, ran, storage0 >>

\* ------------------------------------------------------- locking scheduler
\* Mutant of Restartable: a blocked txn goes on asking for its other locks.
RestartableNever(t) == FALSE

\* The deadlock-avoidance test: a blocked txn with more than one key in
\* readset_ and writeset_ together gives its locks back and is restarted.
Restartable(t) ==
    Cardinality(readset_[t]) + Cardinality(writeset_[t]) > 1

\* The lock-request loops: ask for the lock of keys[i], keys[i+1], ...  A
\* refused request of a restartable txn ends the loop (`at` is its position);
\* a refused request of any other txn leaves it blocked and the loop goes on.
RECURSIVE AcquireLoop(_, _, _, _, _)
AcquireLoop(lt, t, keys, i, isRead) ==
    IF i > Len(keys) THEN [lt |-> lt, blocked |-> FALSE, at |-> 0]
    ELSE Bind(IF isRead THEN ReadLock(lt, t, keys[i]) ELSE WriteLock(lt, t, keys[i]),
              LAMBDA r :
                IF r.ok THEN AcquireLoop(r.lt, t, keys, i + 1, isRead)
                ELSE IF Restartable(t) THEN [lt |-> r.lt, blocked |-> TRUE, at |-> i]
                ELSE [lt |-> AcquireLoop(r.lt, t, keys, i + 1, isRead).lt,
                      blocked |-> TRUE, at |-> 0])

\* The release loops: Release(t, keys[i]) for i = lo..hi, in order.
RECURSIVE ReleaseLoop(_, _, _, _, _)
ReleaseLoop(st, t, keys, lo, hi) ==
    IF lo > hi THEN st
    ELSE Bind(Release(st, t, keys[lo]),
              LAMBDA s : ReleaseLoop(s, t, keys, lo + 1, hi))

\* A read lock was refused at rs[at]: release rs[1..at], the refused request
\* included.
ReleaseOnReadBlock(st, t, rs, at) == ReleaseLoop(st, t, rs, 1, at)

\* Mutant of ReleaseOnWriteBlock: the restarted txn keeps its requests.
ReleaseOnWriteBlockNothing(st, t, rs, ws, at) == st

\* Mutant of ReleaseOnWriteBlock: the whole writeset is released, the keys
\* after the refused one included.
ReleaseOnWriteBlockWholeWriteset(st, t, rs, ws, at) ==
    ReleaseLoop(ReleaseLoop(st, t, rs, 1, Len(rs)), t, ws, 1, Len(ws))

\* A write lock was refused at ws[at]: release every read lock, then ws[1..at].
ReleaseOnWriteBlock(st, t, rs, ws, at) ==
    ReleaseLoop(ReleaseLoop(st, t, rs, 1, Len(rs)), t, ws, 1, at)

\* Admission of a popped request (Admit): the read-lock loop with its release
\* loop (ReadPhase), then, unless blocked, the write-lock loop with its release
\* loops (WritePhase).  On the first refused request of a restartable txn every
\* request made so far is released.  Result: [lt, ready, fatal, blocked].
ReadPhase(lt, ready, t) ==
    Bind(AcquireLoop(lt, t, SetToSeq(readset_[t]), 1, TRUE),
         LAMBDA rd :
           Bind(IF rd.blocked /\ rd.at > 0
                THEN ReleaseOnReadBlock([lt |-> rd.lt, ready |-> ready, fatal |-> FALSE],
                                        t, SetToSeq(readset_[t]), rd.at)
                ELSE [lt |-> rd.lt, ready |-> ready, fatal |-> FALSE],
                LAMBDA s : [lt |-> s.lt, ready |-> s.ready, fatal |-> s.fatal,
                            blocked |-> rd.blocked]))

WritePhase(st, t) ==
    Bind(AcquireLoop(st.lt, t, SetToSeq(writeset_[t]), 1, FALSE),
         LAMBDA wr :
           Bind(IF wr.blocked /\ wr.at > 0
                THEN ReleaseOnWriteBlock([lt |-> wr.lt, ready |-> st.ready, fatal |-> st.fatal],
                                         t, SetToSeq(readset_[t]), SetToSeq(writeset_[t]),
                                         wr.at)
                ELSE [lt |-> wr.lt, ready |-> st.ready, fatal |-> st.fatal],
                LAMBDA s : [lt |-> s.lt, ready |-> s.ready, fatal |-> s.fatal,
                            blocked |-> wr.blocked]))

Admit(lt, ready, t) ==
    Bind(ReadPhase(lt, ready, t),
         LAMBDA st : IF st.blocked THEN st ELSE WritePhase(st, t))

\* Mutant of AfterAdmit: a blocked txn is made ready all the same.
AfterAdmitAlwaysReady(blocked, t) == "ready"

\* Mutant of AfterAdmit: every blocked txn is restarted, whatever its size.
AfterAdmitRestartAny(blocked, t) == IF ~blocked THEN "ready" ELSE "restart"

\* What follows admission: ready to run, restarted with a fresh id, or left
\* pending in the lock queue.
AfterAdmit(blocked, t) ==
    IF ~blocked THEN "ready"
    ELSE IF Cardinality(writeset_[t]) + Cardinality(readset_[t]) > 1 THEN "restart"
    ELSE "wait"

\* One iteration of RunLockingScheduler's loop is the steps below, in order:
\* the request step (sched_pc = "request"), the completed-txn loop
\* ("completed", "apply") and the ready-txn loop ("ready").

\* Pop a request and try to admit it.  The lock table and ready_txns_ are
\* touched by the scheduler thread only, so admission is one step.
LockingAdmit ==
    /\ dead = "no"
    /\ mode_ \in LockingModes
    /\ sched_pc = "request"
    /\ txn_requests_ # <<>>
    /\ \E a \in {Admit(lock_table, ready_txns_, Head(txn_requests_))} :
       LET t == Head(txn_requests_)
           next == AfterAdmit(a.blocked, t)
       IN /\ next = "restart" => next_unique_id_ <= MaxId
          /\ lock_table' = a.lt
          /\ dead' = IF a.fatal THEN "release_unheld" ELSE dead
          /\ seen' = [seen EXCEPT ![t] = Len(clog)]
          /\ CASE next = "ready" ->
                    /\ ready_txns_' = Append(a.ready, t)
                    /\ txn_requests_' = Tail(txn_requests_)
                    /\ UNCHANGED << unique_id_, next_unique_id_, restarts >>
               [] next = "restart" ->
                    /\ ready_txns_' = a.ready
                    /\ unique_id_' = [unique_id_ EXCEPT ![t] = next_unique_id_]
                    /\ next_unique_id_' = next_unique_id_ + 1
                    /\ txn_requests_' = Append(Tail(txn_requests_), t)
                    /\ restarts' = [restarts EXCEPT ![t] = @ + 1]
               [] OTHER ->
                    /\ ready_txns_' = a.ready
                    /\ txn_requests_' = Tail(txn_requests_)
                    /\ UNCHANGED << unique_id_, next_unique_id_, restarts >>
    /\ sched_pc' = "completed"
    /\ UNCHANGED << mode_, txn_vars, status_, reads_, writes_, completed_txns_,
                    txn_results_, storage_, sched_txn, sched_keys, tasks, task_keys,
                    got, clog, pushed, returned, execs, ran, storage0 >>

\* The request step when Pop fails, or when the restart it would end in is
\* beyond MaxId (the bound on restarts): go on to the completed txns.
LockingNoRequest ==
    /\ dead = "no"
    /\ mode_ \in LockingModes
    /\ sched_pc = "request"
    /\ \/ txn_requests_ = <<>>
       \/ /\ txn_requests_ # <<>>
          /\ next_unique_id_ > MaxId
          /\ LET t == Head(txn_requests_)
             IN AfterAdmit(Admit(lock_table, ready_txns_, t).blocked, t) = "restart"
    /\ sched_pc' = "completed"
    /\ UNCHANGED << mode_, txn_vars, unique_id_, status_, reads_, writes_,
                    next_unique_id_, txn_requests_, ready_txns_, completed_txns_,
                    txn_results_, storage_, lock_table, sched_txn, sched_keys, tasks,
                    task_keys, dead, got, hist_vars >>

\* completed_txns_.Pop succeeds: look at the txn's status; a txn to commit has
\* its buffered writes applied next, key by key.
LockingPopCompleted ==
    /\ dead = "no"
    /\ mode_ \in LockingModes
    /\ sched_pc = "completed"
    /\ completed_txns_ # <<>>
    /\ LET t == Head(completed_txns_)
       IN /\ completed_txns_' = Tail(completed_txns_)
          /\ IF Decide(status_[t]) = "DIE"
             THEN /\ dead' = "invalid_status"
                  /\ UNCHANGED << sched_pc, sched_txn, sched_keys >>
             ELSE /\ sched_txn' = t
                  /\ sched_keys' = IF MustApply(status_[t])
                                   THEN SetToSeq(DOMAIN writes_[t]) ELSE <<>>
                  /\ sched_pc' = "apply"
                  /\ UNCHANGED dead
    /\ UNCHANGED << mode_, txn_vars, unique_id_, status_, reads_, writes_,
                    next_unique_id_, txn_requests_, ready_txns_, txn_results_,
                    storage_, lock_table, tasks, task_keys, got, hist_vars >>

\* ApplyWrites, one Storage::Write per step (workers read storage meanwhile).
LockingApplyWrite ==
    /\ dead = "no"
    /\ mode_ \in LockingModes
    /\ sched_pc = "apply"
    /\ sched_keys # <<>>
    /\ storage_' = StorageWrite(storage_, Head(sched_keys),
                                writes_[sched_txn][Head(sched_keys)],
                                unique_id_[sched_txn])
    /\ sched_keys' = Tail(sched_keys)
    /\ UNCHANGED << mode_, txn_vars, unique_id_, status_, reads_, writes_,
                    next_unique_id_, txn_requests_, ready_txns_, completed_txns_,
                    txn_results_, lock_table, sched_pc, sched_txn, tasks, task_keys,
                    dead, got, hist_vars >>

\* The rest of the completed-txn loop body: set the final status, release the
\* read locks then the write locks, push the txn on txn_results_.
LockingFinish ==
    /\ dead = "no"
    /\ mode_ \in LockingModes
    /\ sched_pc = "apply"
    /\ sched_keys = <<>>
    /\ LET t  == sched_txn
           rs == SetToSeq(readset_[t])
           ws == SetToSeq(writeset_[t])
           s0 == [lt |-> lock_table, ready |-> ready_txns_, fatal |-> FALSE]
       IN \E s1 \in {ReleaseLoop(ReleaseLoop(s0, t, rs, 1, Len(rs)), t, ws, 1, Len(ws))} :
          /\ status_' = [status_ EXCEPT ![t] = Decide(status_[t])]
          /\ clog' = IF Decide(status_[t]) = "COMMITTED"
                     THEN Append(clog, [txn |-> t, writes |-> writes_[t]])
                     ELSE clog
          /\ lock_table' = s1.lt
          /\ ready_txns_' = s1.ready
          /\ dead' = IF s1.fatal THEN "release_unheld" ELSE dead
          /\ txn_results_' = Append(txn_results_, t)
          /\ pushed' = [pushed EXCEPT ![t] = @ + 1]
    /\ sched_txn' = 0
    /\ sched_pc' = "completed"
    /\ UNCHANGED << mode_, txn_vars, unique_id_, reads_, writes_, next_unique_id_,
                    txn_requests_, completed_txns_, storage_, sched_keys, tasks,
                    task_keys, got, restarts, returned, execs, seen, ran, storage0 >>

\* completed_txns_.Pop fails: the completed-txn loop ends.
LockingNoCompleted ==
    /\ dead = "no"
    /\ mode_ \in LockingModes
    /\ sched_pc = "completed"
    /\ completed_txns_ = <<>>
    /\ sched_pc' = "ready"
    /\ UNCHANGED << mode_, txn_vars, unique_id_, status_, reads_, writes_,
                    next_unique_id_, txn_requests_, ready_txns_, completed_txns_,
                    txn_results_, storage_, lock_table, sched_txn, sched_keys, tasks,
                    task_keys, dead, got, hist_vars >>

\* The ready-txn loop: hand every txn of ready_txns_ to the thread pool as an
\* ExecuteTxn task, then start the next iteration.
LockingDispatch ==
    /\ dead = "no"
    /\ mode_ \in LockingModes
    /\ sched_pc = "ready"
    /\ tasks' = tasks \cup SeqToSet(ready_txns_)
    /\ task_keys' = [t \in Txns |-> IF t \in SeqToSet(ready_txns_)
                                    THEN KeysToRead(t) ELSE task_keys[t]]
    /\ ready_txns_' = <<>>
    /\ sched_pc' = "request"
    /\ UNCHANGED << mode_, txn_vars, unique_id_, status_, reads_, writes_,
                    next_unique_id_, txn_requests_, completed_txns_, txn_results_,
                    storage_, lock_table, sched_txn, sched_keys, dead, got,
                    hist_vars >>

\* ------------------------------------------------------------ worker pool
\* ExecuteTxn on a worker thread: one Storage::Read per step.
ExecuteRead(t) ==
    /\ dead = "no"
    /\ t \in tasks
    /\ task_keys[t] # <<>>
    /\ reads_' = [reads_ EXCEPT ![t] = StorageRead(storage_, @, Head(task_keys[t]))]
    /\ task_keys' = [task_keys EXCEPT ![t] = Tail(@)]
    /\ UNCHANGED << mode_, txn_vars, unique_id_, status_, writes_, next_unique_id_,
                    txn_requests_, ready_txns_, completed_txns_, txn_results_,
                    storage_, lock_table, sched_pc, sched_txn, sched_keys, tasks,
                    dead, got, hist_vars >>

\* ExecuteTxn on a worker thread, after the reads: run the logic and hand the
\* txn back on completed_txns_.
ExecuteRun(t) ==
    /\ dead = "no"
    /\ t \in tasks
    /\ task_keys[t] = <<>>
    /\ LET r == Run(t, reads_[t])
       IN /\ writes_' = [writes_ EXCEPT ![t] = r.writes]
          /\ status_' = [status_ EXCEPT ![t] = r.status]
    /\ completed_txns_' = Append(completed_txns_, t)
    /\ tasks' = tasks \ {t}
    /\ execs' = [execs EXCEPT ![t] = @ + 1]
    /\ ran' = [ran EXCEPT ![t] = Len(clog)]
    /\ UNCHANGED << mode_, txn_vars, unique_id_, reads_, next_unique_id_,
                    txn_requests_, ready_txns_, txn_results_, storage_, lock_table,
                    sched_pc, sched_txn, sched_keys, task_keys, dead, got, clog,
                    restarts, pushed, returned, seen, storage0 >>

\* ------------------------------------------------------------------- Next
Next ==
    \/ \E t \in Txns : NewTxnRequest(t)
    \/ \E c \in Clients : GetTxnResult(c)
    \/ SerialExecute
    \/ SerialDecide
    \/ LockingAdmit
    \/ LockingNoRequest
    \/ LockingPopCompleted
    \/ LockingApplyWrite
    \/ LockingFinish
    \/ LockingNoCompleted
    \/ LockingDispatch
    \/ \E t \in Txns : ExecuteRead(t)
    \/ \E t \in Txns : ExecuteRun(t)

Spec == Init /\ [][Next]_vars

\* A step of the scheduler thread, whichever loop RunScheduler started.
SchedulerStep ==
    \/ SerialExecute \/ SerialDecide
    \/ LockingAdmit \/ LockingNoRequest
    \/ LockingPopCompleted \/ LockingApplyWrite \/ LockingFinish
    \/ LockingNoCompleted \/ LockingDispatch

\* The scheduler thread keeps running its loop, the thread pool runs every task
\* it was given, and a client waiting in GetTxnResult keeps polling.
Fairness ==
    /\ WF_vars(SchedulerStep)
    /\ \A t \in Txns : WF_vars(ExecuteRead(t) \/ ExecuteRun(t))
    /\ WF_vars(\E c \in Clients : GetTxnResult(c))

FairSpec == Init /\ [][Next]_vars /\ Fairness

\* ------------------------------------------------------------ properties
Count(q, t) == Cardinality({i \in 1..Len(q) : q[i] = t})
Size(t) == Cardinality(readset_[t]) + Cardinality(writeset_[t])
KeysOf(t) == readset_[t] \cup writeset_[t]
Owners(k) == {i \in 1..Len(lock_table[k]) : lock_table[k][i].granted}
Pending(t) == \E k \in Keys : \E i \in 1..Len(lock_table[k]) :
                 lock_table[k][i].txn = t /\ ~lock_table[k][i].granted
Finished(t) == status_[t] \in {"COMMITTED", "ABORTED"}
WellBehaved == \A t \in Txns : logic[t] # "none"

\* C1: with callbacks that all end in COMPLETED_C or COMPLETED_A and fair
\* scheduling, every submitted transaction is eventually returned by
\* GetTxnResult, in every mode.
C1_EveryTxnReturned ==
    WellBehaved => \A t \in Txns : [](unique_id_[t] # 0 => <>(returned[t] > 0))

\* C2: a transaction is pushed on the result queue at most once, restarts
\* included, and every pushed result is either still queued or was returned to
\* exactly one polling client: none twice, none dropped.
C2_ResultDeliveredOnce ==
    /\ \A t \in Txns :
          /\ pushed[t] <= 1
          /\ returned[t] <= 1
          /\ pushed[t] = returned[t] + Count(txn_results_, t)
          /\ returned[t] = Cardinality({c \in Clients : t \in got[c]})

C2_Witness ==
    /\ \E t \in Txns : restarts[t] > 0 /\ returned[t] = 1
    /\ \A c \in Clients : got[c] # {}

\* C3: in the locking modes, for every key, a WRITE owner recorded in the lock
\* table is the only owner of that key.
C3_LockMutualExclusion ==
    mode_ \in LockingModes =>
        \A k \in Keys : \A i \in Owners(k) :
            lock_table[k][i].mode = "WRITE" => Owners(k) = {i}

C3_Witness ==
    /\ mode_ = "LOCKING"
    /\ \E t \in Txns : restarts[t] > 0
    /\ \E k \in Keys : \E i \in Owners(k) : lock_table[k][i].mode = "WRITE"
    /\ \E k \in Keys : \E i \in Owners(k) : lock_table[k][i].mode = "READ"

\* The serial oracle: the transactions of `order` run one at a time, each as
\* SerialExecute and SerialDecide run it, from store st.  Result: the values of
\* the store and the final status of each txn run.
RECURSIVE SerialRun(_, _, _, _)
SerialRun(st, out, order, i) ==
    IF i > Len(order) THEN [vals |-> [k \in DOMAIN st |-> st[k].val], status |-> out]
    ELSE LET t  == order[i]
             r  == Run(t, ReadKeys(st, EmptyMap, KeysToRead(t), 1))
             st2 == IF MustApply(r.status)
                    THEN ApplyWrites(st, r.writes, unique_id_[t], SetToSeq(DOMAIN r.writes), 1)
                    ELSE st
         IN SerialRun(st2, (t :> Decide(r.status)) @@ out, order, i + 1)

Orders(S) == {o \in [1..Cardinality(S) -> S] : \A i, j \in DOMAIN o : i # j => o[i] # o[j]}

FinishedTxns == {t \in Txns : Finished(t)}

\* C4: in the locking modes, whenever the scheduler is not in the middle of
\* applying a commit, the store and the COMMITTED/ABORTED outcomes of the
\* finished transactions equal those of the serial scheduler running exactly
\* these transactions one at a time in some order.
C4_LockingSerializable ==
    (mode_ \in LockingModes /\ sched_pc # "apply") =>
        \E o \in Orders(FinishedTxns) :
            LET ser == SerialRun(storage0, EmptyMap, o, 1)
            IN /\ ser.vals = [k \in DOMAIN storage_ |-> storage_[k].val]
               /\ ser.status = [t \in FinishedTxns |-> status_[t]]

C4_Witness ==
    /\ mode_ \in LockingModes
    /\ \A t \in Txns : status_[t] = "COMMITTED" /\ writes_[t] # EmptyMap
    /\ \E t \in Txns : restarts[t] > 0
    /\ \E t, u \in Txns : t # u /\ KeysOf(t) \cap KeysOf(u) # {}

\* The scenario of C5: txn 1 writes key 1 = 1, txn 2 reads key 1 and writes
\* key 1 = read + 1 (key 1 declared in its writeset, with or without the
\* readset), and nothing else is submitted.
C5_Scenario ==
    /\ mode_ \in LockingModes
    /\ logic[1] = "put" /\ readset_[1] = {} /\ writeset_[1] = {1}
    /\ logic[2] = "incr" /\ readset_[2] \subseteq {1} /\ writeset_[2] = {1}
    /\ \A t \in Txns \ {1, 2} : unique_id_[t] = 0

\* C5 as stated: in the scenario, once both transactions are finished both are
\* COMMITTED and key 1 holds 2.
C5_FinalValueIsTwo ==
    (C5_Scenario /\ Finished(1) /\ Finished(2)) =>
        /\ status_[1] = "COMMITTED" /\ status_[2] = "COMMITTED"
        /\ storage_[1].val = 2

\* C5 amended: in the scenario, once both transactions are finished both are
\* COMMITTED and key 1 holds 2 when txn 1 committed first, 1 when txn 2 did.
C5_FinalValueByCommitOrder ==
    (C5_Scenario /\ Finished(1) /\ Finished(2)) =>
        /\ status_[1] = "COMMITTED" /\ status_[2] = "COMMITTED"
        /\ Len(clog) = 2
        /\ storage_[1].val = IF clog[1].txn = 1 THEN 2 ELSE 1

C5_Witness ==
    /\ C5_Scenario /\ Finished(1) /\ Finished(2)
    /\ clog[1].txn = 2
    /\ storage_[1].val = 1

\* C6: in the locking modes a submitted transaction with one key in readset_
\* and writeset_ together keeps its unique id and is never pushed back on
\* txn_requests_; while its lock request is refused it stays in the lock queue
\* until it is granted; only transactions with more than one key are restarted.
C6_SingleKeyNeverRestarted ==
    [][\A t \in Txns :
          /\ restarts'[t] # restarts[t] => Size(t) > 1
          /\ (Size(t) = 1 /\ unique_id_[t] # 0) =>
                /\ unique_id_'[t] = unique_id_[t]
                /\ Count(txn_requests_', t) <= Count(txn_requests_, t)
                /\ Pending(t) =>
                      \E k \in Keys : \E i \in 1..Len(lock_table'[k]) :
                          lock_table'[k][i].txn = t]_vars

C6_Witness ==
    \E t \in Txns : Size(t) = 1 /\ Pending(t) /\ Count(txn_requests_, t) = 0

\* The commits (positions of clog) that wrote key k among the first n.
WritersOf(k, n) == {j \in 1..n : k \in DOMAIN clog[j].writes}
Last(S) == CHOOSE x \in S : \A y \in S : y <= x

C8_StatusStateMachine ==
    [][/\ \A t \in Txns :
             /\ status_'[t] # status_[t] =>
                   << status_[t], status_'[t] >> \in
                       { << "INCOMPLETE", "COMPLETED_C" >>, << "INCOMPLETE", "COMPLETED_A" >>,
                         << "COMPLETED_C", "COMMITTED" >>, << "COMPLETED_A", "ABORTED" >> }
             /\ restarts'[t] # restarts[t] => status_'[t] = "INCOMPLETE"
       /\ \A i \in 1..Len(txn_results_') :
             status_'[txn_results_'[i]] \in {"COMMITTED", "ABORTED"}]_vars

C8_Witness ==
    /\ \E t \in Txns : restarts[t] > 0 /\ status_[t] = "ABORTED" /\ Count(txn_results_, t) = 1
    /\ \E t \in Txns : status_[t] = "COMMITTED"

\* Whether the record of key k differs between stores a and b.
Differs(a, b, k) ==
    \/ (k \in DOMAIN a) # (k \in DOMAIN b)
    \/ k \in DOMAIN a /\ k \in DOMAIN b /\ a[k] # b[k]

\* C9: a record of the store changes only by the scheduler applying a buffered
\* write of the transaction it is committing, whose status is COMPLETED_C; so
\* every record is the initial one or a write of a committing or committed
\* transaction, never one of an aborted or restarted transaction.
C9_OnlyCommitsReachStorage ==
    [][/\ \A k \in Keys : Differs(storage_, storage_', k) =>
             /\ sched_txn # 0
             /\ status_[sched_txn] = "COMPLETED_C"
             /\ k \in DOMAIN writes_[sched_txn]
             /\ storage_'[k].val = writes_[sched_txn][k]
       /\ \A k \in DOMAIN storage_' :
             \/ k \in DOMAIN storage0 /\ storage_'[k] = storage0[k]
             \/ \E t \in Txns :
                   /\ status_'[t] \in {"COMPLETED_C", "COMMITTED"}
                   /\ k \in DOMAIN writes_'[t]
                   /\ storage_'[k] = [val |-> writes_'[t][k], writer |-> unique_id_'[t]]]_vars

C9_Witness ==
    \E t, u \in Txns :
        /\ status_[t] = "ABORTED" /\ restarts[t] > 0
        /\ status_[u] = "COMMITTED"
        /\ DOMAIN writes_[t] \cap DOMAIN writes_[u] # {}
        /\ \A k \in DOMAIN writes_[u] : storage_[k].val = writes_[u][k]

\* C10: a transaction whose logic set COMPLETED_A has run once, is not on
\* txn_requests_ or ready_txns_ and is not a task again; if it is published its
\* status is ABORTED; and unless the process dies it is published as ABORTED.
C10_LogicalAbortIsFinal ==
    /\ [](\A t \in Txns : status_[t] \in {"COMPLETED_A", "ABORTED"} =>
            /\ execs[t] = 1
            /\ Count(txn_requests_, t) = 0
            /\ Count(ready_txns_, t) = 0
            /\ t \notin tasks)
    /\ [](\A t \in Txns : (logic[t] = "abort" /\ pushed[t] > 0) => status_[t] = "ABORTED")
    /\ \A t \in Txns :
          (status_[t] = "COMPLETED_A") ~>
              (dead # "no" \/ (status_[t] = "ABORTED" /\ pushed[t] = 1))

C10_Witness ==
    \E t \in Txns :
        /\ mode_ \in LockingModes
        /\ restarts[t] > 0
        /\ status_[t] = "ABORTED"
        /\ returned[t] = 1

\* C11: every id assignment, by NewTxnRequest or by a restart, takes the value
\* of next_unique_id_ and increments it, so the new id is greater than every
\* id held and at most one transaction gets an id per step; submitted
\* transactions have pairwise different ids; txn_requests_ holds its
\* transactions in ascending id order.
C11_IdsUniqueAndIncreasing ==
    [][/\ \A t \in Txns : unique_id_'[t] # unique_id_[t] =>
             /\ unique_id_'[t] = next_unique_id_
             /\ next_unique_id_' = next_unique_id_ + 1
             /\ \A u \in Txns : unique_id_[u] < unique_id_'[t]
             /\ \A u \in Txns \ {t} : unique_id_'[u] = unique_id_[u]
       /\ next_unique_id_' >= next_unique_id_
       /\ \A t \in Txns : unique_id_'[t] < next_unique_id_'
       /\ \A t, u \in Txns :
             (t # u /\ unique_id_'[t] # 0) => unique_id_'[t] # unique_id_'[u]
       /\ \A i, j \in 1..Len(txn_requests_') :
             i < j => unique_id_'[txn_requests_'[i]] < unique_id_'[txn_requests_'[j]]]_vars

C11_Witness ==
    \E t, u \in Txns :
        /\ restarts[t] > 0
        /\ txn_requests_ = << t, u >>
        /\ unique_id_[t] + 1 = unique_id_[u]
        /\ unique_id_[u] > NumTxns

\* C12: a transaction whose logic ran and left it INCOMPLETE is never
\* committed, aborted or pushed on txn_results_, and the scheduler gets past
\* it only by dying; the step that dies leaves storage and txn_results_ as
\* they were; after it no step is taken.
C12_InvalidStatusIsFatal ==
    [][/\ dead = "no"
       /\ dead' = "invalid_status" =>
             /\ storage_' = storage_
             /\ txn_results_' = txn_results_
             /\ \E t \in Txns : execs[t] > 0 /\ status_[t] = "INCOMPLETE"
       /\ \A t \in Txns : (execs[t] > 0 /\ status_[t] = "INCOMPLETE") =>
             /\ status_'[t] = "INCOMPLETE"
             /\ pushed'[t] = 0
             /\ \A k \in DOMAIN storage_' : storage_'[k].writer # unique_id_[t]
             /\ Count(completed_txns_', t) < Count(completed_txns_, t) =>
                   dead' = "invalid_status"
             /\ (sched_pc = "decide" /\ sched_txn = t) =>
                   (sched_pc' = "decide" /\ sched_txn' = t)]_vars

C12_Witness ==
    /\ dead = "invalid_status"
    /\ \E t, u \in Txns :
          /\ logic[t] = "none" /\ execs[t] = 1 /\ pushed[t] = 0
          /\ logic[u] # "none" /\ unique_id_[u] # 0 /\ ~Finished(u)

\* The reads_ each transaction of `order` caches when the transactions run one
\* at a time from store st, as SerialRun runs them.
RECURSIVE SerialReads(_, _, _, _)
SerialReads(st, out, order, i) ==
    IF i > Len(order) THEN out
    ELSE LET t  == order[i]
             rd == ReadKeys(st, EmptyMap, KeysToRead(t), 1)
             r  == Run(t, rd)
             st2 == IF MustApply(r.status)
                    THEN ApplyWrites(st, r.writes, unique_id_[t], SetToSeq(DOMAIN r.writes), 1)
                    ELSE st
         IN SerialReads(st2, (t :> rd) @@ out, order, i + 1)

CommittedTxns == {t \in Txns : status_[t] = "COMMITTED"}

\* C13: in OCC and P_OCC mode there is an order of exactly the COMMITTED
\* transactions such that running them one at a time in that order from the
\* initial store commits each of them, gives each the reads_ it has and leaves
\* the store as it is.
C13_OCCSerializable ==
    mode_ \in {"OCC", "P_OCC"} =>
        \E o \in Orders(CommittedTxns) :
            LET ser == SerialRun(storage0, EmptyMap, o, 1)
            IN /\ ser.vals = [k \in DOMAIN storage_ |-> storage_[k].val]
               /\ ser.status = [t \in CommittedTxns |-> "COMMITTED"]
               /\ SerialReads(storage0, EmptyMap, o, 1) = [t \in CommittedTxns |-> reads_[t]]

C13_Witness ==
    /\ mode_ \in {"OCC", "P_OCC"}
    /\ \E t, u \in Txns :
          /\ t # u
          /\ status_[t] = "COMMITTED" /\ status_[u] = "COMMITTED"
          /\ \E k \in DOMAIN writes_[t] \cap DOMAIN writes_[u] :
                /\ k \in DOMAIN reads_[u]
                /\ reads_[u][k] = writes_[t][k]
                /\ storage_[k].val = writes_[u][k]
                /\ writes_[u][k] # writes_[t][k]

\* The scenario of C14: OCC mode, transactions 1 and 2 both read key 1 and write
\* key 1 from what they read, and both are queued before either is executed.
C14_Scenario ==
    /\ mode_ = "OCC"
    /\ \A t \in {1, 2} : logic[t] = "incr" /\ readset_[t] = {1} /\ writeset_[t] = {1}
    /\ txn_requests_ = << 1, 2 >>

\* C14: in the scenario, once both transactions are finished both are
\* COMMITTED, one of them having run once under the id it was submitted with,
\* the other having been resubmitted with a fresh id and run again.
C14_OneCommitsOtherRetried ==
    [](C14_Scenario =>
         []((Finished(1) /\ Finished(2)) =>
               /\ status_[1] = "COMMITTED" /\ status_[2] = "COMMITTED"
               /\ \E t, u \in {1, 2} :
                     /\ t # u
                     /\ execs[t] = 1 /\ unique_id_[t] <= 2
                     /\ execs[u] > 1 /\ unique_id_[u] > 2))

\* The store after the first n commits of clog: whether it has a record of key
\* k, and the value of that record.
SnapshotHas(k, n) == WritersOf(k, n) # {} \/ k \in DOMAIN storage0
SnapshotVal(k, n) ==
    IF WritersOf(k, n) # {} THEN clog[Last(WritersOf(k, n))].writes[k]
    ELSE storage0[k].val

Entries(t, k) == {i \in 1..Len(lock_table[k]) : lock_table[k][i].txn = t}
Held(t, k) == {i \in Entries(t, k) : lock_table[k][i].granted}
Asked(t, k) == (IF k \in readset_[t] THEN 1 ELSE 0) + (IF k \in writeset_[t] THEN 1 ELSE 0)
HoldsAll(t) == \A k \in Keys : Held(t, k) = Entries(t, k) /\ Cardinality(Held(t, k)) = Asked(t, k)
HoldsNone(t) == \A k \in Keys : Held(t, k) = {}

\* Past admission and not yet committed or aborted: waiting for its lock, ready,
\* executing or completed.
Admitted(t) == unique_id_[t] # 0 /\ Count(txn_requests_, t) = 0 /\ ~Finished(t)

WaitsFor(t, u) ==
    \E k \in Keys : \E i, j \in 1..Len(lock_table[k]) :
        /\ i < j
        /\ lock_table[k][i].txn = u
        /\ lock_table[k][j].txn = t /\ ~lock_table[k][j].granted

\* C17: in the locking modes, between admission steps every transaction holds
\* either all the locks of its readset and writeset, with no request pending,
\* or no lock; a transaction on txn_requests_ has no request in any lock queue;
\* a transaction with a pending request holds no lock; and no set of
\* transactions wait for one another in a cycle.
C17_AllLocksOrNone ==
    mode_ \in LockingModes =>
        /\ \A t \in Txns :
              /\ HoldsAll(t) \/ HoldsNone(t)
              /\ Count(txn_requests_, t) > 0 => \A k \in Keys : Entries(t, k) = {}
              /\ Pending(t) => HoldsNone(t)
        /\ \A S \in (SUBSET Txns) \ {{}} :
              \E t \in S : \A u \in S : ~WaitsFor(t, u)

C17_Witness ==
    /\ mode_ \in LockingModes
    /\ \E t, u \in Txns :
          /\ restarts[t] > 0 /\ Count(txn_requests_, t) = 1
          /\ Size(u) > 1 /\ HoldsAll(u) /\ KeysOf(t) \cap KeysOf(u) # {}
          /\ u \in tasks

\* What a step leaves true of transaction t under strict two-phase locking.
TwoPhaseStep(t) ==
    mode_ \in LockingModes =>
        /\ (Count(ready_txns_', t) > 0 \/ t \in tasks' \/ Count(completed_txns_', t) > 0
              \/ (sched_pc' = "apply" /\ sched_txn' = t)) => HoldsAll(t)'
        /\ pushed'[t] > 0 => \A k \in Keys : Entries(t, k)' = {}
        /\ (\E k \in Keys : Held(t, k) # {} /\ Held(t, k)' = {}) =>
              /\ sched_pc = "apply" /\ sched_txn = t /\ sched_keys = <<>>
              /\ status_[t] = "COMPLETED_C" =>
                    \A k \in DOMAIN writes_[t] : storage_[k].val = writes_[t][k]
              /\ status_'[t] \in {"COMMITTED", "ABORTED"}
              /\ pushed[t] = 0 /\ pushed'[t] = 1
              /\ HoldsAll(t)
              /\ HoldsNone(t)'

\* C18: in the locking modes a transaction on ready_txns_, executing, on
\* completed_txns_ or being committed holds the locks of all its keys; a lock
\* it holds is given up only in the step that, ApplyWrites done, sets its status
\* to COMMITTED or ABORTED and pushes it on txn_results_; a published
\* transaction has no request left in the lock table.
C18_StrictTwoPhase ==
    [][\A t \in Txns : TwoPhaseStep(t)]_vars

C18_Witness ==
    /\ mode_ \in LockingModes
    /\ \E t, u \in Txns :
          /\ t # u
          /\ Size(t) > 1 /\ status_[t] = "COMMITTED" /\ Count(txn_results_, t) = 1
          /\ restarts[u] > 0 /\ u \in tasks /\ HoldsAll(u)
          /\ KeysOf(t) \cap KeysOf(u) # {}

\* C19: in the locking modes, when the scheduler takes up the request of a
\* transaction with a key in both readset_ and writeset_ while the lock queues
\* of its keys are empty (and the bound on ids is not reached), the transaction
\* goes to ready_txns_ under the id it has; and with fair scheduling every such
\* transaction submitted is eventually committed or aborted, unless the process
\* dies.
C19_SharedKeyTxnCompletes ==
    /\ [][\A t \in Txns :
             (/\ mode_ \in LockingModes
              /\ readset_[t] \cap writeset_[t] # {}
              /\ sched_pc = "request" /\ sched_pc' = "completed"
              /\ txn_requests_ # <<>> /\ Head(txn_requests_) = t
              /\ next_unique_id_ <= MaxId
              /\ \A k \in KeysOf(t) : lock_table[k] = <<>>) =>
                 /\ Count(ready_txns_', t) = 1
                 /\ unique_id_'[t] = unique_id_[t]]_vars
    /\ \A t \in Txns :
          []((mode_ \in LockingModes /\ readset_[t] \cap writeset_[t] # {}
                /\ unique_id_[t] # 0) => <>(Finished(t) \/ dead # "no"))

\* C20: a transaction is at most once on the stage queues txn_requests_,
\* ready_txns_, completed_txns_ and txn_results_ taken together.
C20_InOneStageQueue ==
    \A t \in Txns :
        Count(txn_requests_, t) + Count(ready_txns_, t)
            + Count(completed_txns_, t) + Count(txn_results_, t) <= 1

====
